---- MODULE Spec2Model ----
(***************************************************************************)
(* State-machine model of the tinkoff-go client library:                   *)
(*   - client.Client      (src/client/client.go), the placeholder client   *)
(*   - client.RealClient  (src/unnamed/part_002), the gRPC client          *)
(*   - config.New         (src/unnamed/part_003)                           *)
(*   - the receive loops of the streaming example                          *)
(*     (src/examples/advanced_orders/main.go, handleMarketDataStream)      *)
(*   - the simulated market data of the mock streaming example             *)
(*     (src/unnamed/part_003, simulateMarketDataStream)                    *)
(* gRPC itself is the environment: the outcome of Dial, conn.Close, a      *)
(* unary RPC, stream creation, stream.Send and stream.Recv is an input.    *)
(***************************************************************************)
EXTENDS Integers, Sequences, FiniteSets, TLC

VARIABLES
    mock,        \* the *Client value (client.go:20-50)
    real,        \* the *RealClient value (part_002:21-51)
    streams,     \* the streams handed out by StartMarketDataStream / StartOrderStream
    dispatched,  \* what the receive loops did with the frames they received
    simulated,   \* the simulated updates the mock streaming example produced
    invoked,     \* invocations of the handlers registered with OnCandle/OnTrade/OnOrderBook
    subscribedLog, \* the number of "Subscribed to ..." lines the Subscribe* calls logged
    ret,         \* the result of the last call that returned
    panicked,    \* a run-time panic ended the process
    mu,          \* c.mu (sync.RWMutex) of the Client and of the RealClient
    goroutines,  \* the call each goroutine is in, and how far it got
    writes,      \* the fields goroutines wrote, with the lock the writer held
    simulation   \* the goroutine of the mock streaming example and how far it got

vars == <<mock, real, streams, dispatched, simulated, invoked, subscribedLog, ret, panicked,
          mu, goroutines, writes, simulation>>

----------------------------------------------------------------------------
(* Bounds of the model *)

MaxStreams == 2
MaxGoroutines == 2
MaxSent == 2
MaxRecv == 2
MaxSimulated == 1

----------------------------------------------------------------------------
(* config.New *)

ProductionServer == "invest-public-api.tinkoff.ru:443"
DemoServer == "sandbox-invest-public-api.tinkoff.ru:443"

Tokens == {"", "t0ken"}

\* A config.New that ignores isDemo when it picks the server.
ConfigNewProductionOnly(token, isDemo) ==
    IF token = ""
    THEN [err |-> "token is required", Token |-> "", IsDemo |-> FALSE, ServerURL |-> ""]
    ELSE [err |-> "nil", Token |-> token, IsDemo |-> isDemo, ServerURL |-> ProductionServer]

ConfigNew(token, isDemo) ==
    IF token = ""
    THEN [err |-> "token is required", Token |-> "", IsDemo |-> FALSE, ServerURL |-> ""]
    ELSE [err |-> "nil", Token |-> token, IsDemo |-> isDemo,
          ServerURL |-> IF isDemo THEN DemoServer ELSE ProductionServer]

\* A Config the caller builds itself, as in &config.Config{Token: ..., IsDemo: ...,
\* ServerURL: ...}: nothing validates it.
CustomServer == "custom-server:443"

Config(token, isDemo, serverURL) ==
    [err |-> "nil", Token |-> token, IsDemo |-> isDemo, ServerURL |-> serverURL]

\* A nil *config.Config.
NilConfig == [isNil |-> TRUE]

IsNilConfig(cfg) == "isNil" \in DOMAIN cfg

CallerConfigs ==
    {Config("t0ken", TRUE, CustomServer), Config("", FALSE, ProductionServer), NilConfig}

----------------------------------------------------------------------------
(* Values *)

ErrNil == "nil"
ErrNotConnected == "client not connected"
ErrCloseFailed == "failed to close connection"
ErrConfig == "failed to create config"
ErrConnect == "failed to connect"
ErrRPC == "rpc failed"
ErrNotFound == "instrument not found"
ErrStartStream == "failed to start stream"

DataKinds == {"candle", "trade", "orderBook"}
UserHandlers == {"h1"}

DefaultHandler(kind) ==
    CASE kind = "candle" -> "defaultCandleHandler"
      [] kind = "trade" -> "defaultTradeHandler"
      [] kind = "orderBook" -> "defaultOrderBookHandler"

NoMock ==
    [made |-> FALSE, token |-> "", serverURL |-> "", isDemo |-> FALSE, conn |-> "nil",
     connected |-> FALSE, ctx |-> "none",
     candleCh |-> "nil", tradeCh |-> "nil", orderBookCh |-> "nil",
     onCandle |-> "nil", onTrade |-> "nil", onOrderBook |-> "nil",
     accounts |-> "nil"]

NoReal ==
    [made |-> FALSE, token |-> "", serverURL |-> "", isDemo |-> FALSE, conn |-> "nil",
     connected |-> FALSE, ctx |-> "none", accounts |-> "nil"]

NoRet == [op |-> "none", err |-> ErrNil, val |-> "nil", rpc |-> FALSE]

Ret(op, err, val, rpc) == [op |-> op, err |-> err, val |-> val, rpc |-> rpc]

\* A sync.RWMutex: the goroutine holding the write lock (0: none) and the goroutines
\* holding the read lock.
Unlocked == [writer |-> 0, readers |-> {}]

Goroutines == 1..MaxGoroutines

\* A goroutine that is in no call of a client.
Idle == [op |-> "none", pc |-> "idle", stream |-> 0, err |-> ErrNil, rpc |-> FALSE,
         afterClose |-> FALSE]

NoCalls ==
    /\ mu = [c \in {"Client", "RealClient"} |-> Unlocked]
    /\ goroutines = [g \in Goroutines |-> Idle]
    /\ writes = {}

Init ==
    /\ mock = NoMock
    /\ real = NoReal
    /\ streams = <<>>
    /\ dispatched = <<>>
    /\ simulated = [k \in DataKinds |-> 0]
    /\ invoked = [k \in DataKinds |-> 0]
    /\ subscribedLog = 0
    /\ ret = NoRet
    /\ panicked = FALSE
    /\ NoCalls
    /\ simulation = [pc |-> "idle", kind |-> "none", isConnected |-> FALSE]

----------------------------------------------------------------------------
(* client.Client *)

\* NewWithConfig followed by connect: the client a successful construction returns.
ClientConnected(cfg) ==
    [made |-> TRUE, token |-> cfg.Token, serverURL |-> cfg.ServerURL, isDemo |-> cfg.IsDemo,
     conn |-> "open", connected |-> TRUE, ctx |-> "active",
     candleCh |-> "open", tradeCh |-> "open", orderBookCh |-> "open",
     onCandle |-> DefaultHandler("candle"), onTrade |-> DefaultHandler("trade"),
     onOrderBook |-> DefaultHandler("orderBook"),
     accounts |-> "nil"]

\* New / NewDemo / NewWithDemo: config.New, then NewWithConfig; dialOk is grpc.Dial's outcome.
NewWithDemo(token, isDemo, dialOk) ==
    /\ ~panicked
    /\ ~mock.made
    /\ LET cfg == ConfigNew(token, isDemo) IN
        IF cfg.err # "nil"
        THEN /\ ret' = Ret("NewWithDemo", ErrConfig, "nil", FALSE)
             /\ UNCHANGED mock
        ELSE IF ~dialOk
        THEN /\ ret' = Ret("NewWithDemo", ErrConnect, "nil", FALSE)
             /\ UNCHANGED mock
        ELSE /\ mock' = ClientConnected(cfg)
             /\ ret' = Ret("NewWithDemo", ErrNil, "client", FALSE)
    /\ UNCHANGED <<real, streams, dispatched, simulated, invoked, subscribedLog, panicked, mu, goroutines, writes, simulation>>

\* NewWithConfig(cfg) called with a Config of the caller: cfg.Token of a nil cfg
\* panics; nothing else is checked before the dial.
NewWithConfig(cfg, dialOk) ==
    /\ ~panicked
    /\ ~mock.made
    /\ IF IsNilConfig(cfg)
       THEN /\ panicked' = TRUE
            /\ ret' = Ret("NewWithConfig", "panic: nil pointer dereference", "nil", FALSE)
            /\ UNCHANGED mock
       ELSE IF ~dialOk
       THEN /\ ret' = Ret("NewWithConfig", ErrConnect, "nil", FALSE)
            /\ UNCHANGED <<mock, panicked>>
       ELSE /\ mock' = ClientConnected(cfg)
            /\ ret' = Ret("NewWithConfig", ErrNil, "client", FALSE)
            /\ UNCHANGED panicked
    /\ UNCHANGED <<real, streams, dispatched, simulated, invoked, subscribedLog, mu, goroutines, writes, simulation>>

\* The part of Close that follows the connected check, up to and including conn.Close().
\* closeOk is the outcome of conn.Close().
ClientTeardown(c, closeOk) ==
    [c EXCEPT !.ctx = "cancelled",
              !.candleCh = "closed", !.tradeCh = "closed", !.orderBookCh = "closed",
              !.conn = IF closeOk THEN "closed" ELSE c.conn,
              !.connected = IF closeOk THEN FALSE ELSE c.connected]

\* close(ch) on a closed channel panics.
ClientClosePanics(c) ==
    c.connected /\ (c.candleCh = "closed" \/ c.tradeCh = "closed" \/ c.orderBookCh = "closed")

ClientClose(closeOk) ==
    /\ ~panicked
    /\ mock.made
    /\ IF ~mock.connected
       THEN /\ ret' = Ret("Client.Close", ErrNil, "nil", FALSE)
            /\ UNCHANGED <<mock, panicked>>
       ELSE IF ClientClosePanics(mock)
       THEN /\ panicked' = TRUE
            /\ ret' = Ret("Client.Close", "panic: close of closed channel", "nil", FALSE)
            /\ UNCHANGED mock
       ELSE /\ mock' = ClientTeardown(mock, closeOk)
            /\ ret' = Ret("Client.Close", IF closeOk THEN ErrNil ELSE ErrCloseFailed, "nil", FALSE)
            /\ UNCHANGED panicked
    /\ UNCHANGED <<real, streams, dispatched, simulated, invoked, subscribedLog, mu, goroutines, writes, simulation>>

\* GetAccounts without the connected check (the variant the check excludes).
ClientGetAccountsUnchecked ==
    /\ ~panicked
    /\ mock.made
    /\ mock' = [mock EXCEPT !.accounts = "mock-account-1"]
    /\ ret' = Ret("Client.GetAccounts", ErrNil, "mock-account-1", FALSE)
    /\ UNCHANGED <<real, streams, dispatched, simulated, invoked, subscribedLog, panicked, mu, goroutines, writes, simulation>>

ClientGetAccounts ==
    /\ ~panicked
    /\ mock.made
    /\ IF ~mock.connected
       THEN /\ ret' = Ret("Client.GetAccounts", ErrNotConnected, "nil", FALSE)
            /\ UNCHANGED mock
       ELSE /\ mock' = [mock EXCEPT !.accounts = "mock-account-1"]
            /\ ret' = Ret("Client.GetAccounts", ErrNil, "mock-account-1", FALSE)
    /\ UNCHANGED <<real, streams, dispatched, simulated, invoked, subscribedLog, panicked, mu, goroutines, writes, simulation>>

Figis == {"BBG004730N88", "BBG000000000"}
Tickers == {"SBER", "GAZP"}
ClassCodes == {"TQBR"}

ClientInstrumentByFIGI(c, figi) ==
    IF ~c.connected THEN [err |-> ErrNotConnected, val |-> "nil"]
    ELSE IF figi = "BBG004730N88" THEN [err |-> ErrNil, val |-> "SBER"]
    ELSE [err |-> ErrNotFound, val |-> "nil"]

ClientInstrumentByTicker(c, ticker, classCode) ==
    IF ticker = "SBER" /\ classCode = "TQBR"
    THEN ClientInstrumentByFIGI(c, "BBG004730N88")
    ELSE [err |-> ErrNotFound, val |-> "nil"]

ClientGetInstrumentByFIGI(figi) ==
    /\ ~panicked
    /\ mock.made
    /\ LET r == ClientInstrumentByFIGI(mock, figi) IN
        ret' = Ret("Client.GetInstrumentByFIGI", r.err, r.val, FALSE)
    /\ UNCHANGED <<mock, real, streams, dispatched, simulated, invoked, subscribedLog, panicked, mu, goroutines, writes, simulation>>

ClientGetInstrumentByTicker(ticker, classCode) ==
    /\ ~panicked
    /\ mock.made
    /\ LET r == ClientInstrumentByTicker(mock, ticker, classCode) IN
        ret' = Ret("Client.GetInstrumentByTicker", r.err, r.val, FALSE)
    /\ UNCHANGED <<mock, real, streams, dispatched, simulated, invoked, subscribedLog, panicked, mu, goroutines, writes, simulation>>

\* OnCandle / OnTrade / OnOrderBook: store the handler, nothing else.
SetHandler(c, kind, h) ==
    CASE kind = "candle" -> [c EXCEPT !.onCandle = h]
      [] kind = "trade" -> [c EXCEPT !.onTrade = h]
      [] kind = "orderBook" -> [c EXCEPT !.onOrderBook = h]

HandlerOf(c, kind) ==
    CASE kind = "candle" -> c.onCandle
      [] kind = "trade" -> c.onTrade
      [] kind = "orderBook" -> c.onOrderBook

ClientOn(kind, h) ==
    /\ ~panicked
    /\ mock.made
    /\ HandlerOf(mock, kind) # h
    /\ mock' = SetHandler(mock, kind, h)
    /\ ret' = Ret("Client.On", ErrNil, kind, FALSE)
    /\ UNCHANGED <<real, streams, dispatched, simulated, invoked, subscribedLog, panicked, mu, goroutines, writes, simulation>>

\* The goroutine of simulateMarketDataStream: where it is, the ticker case it took and
\* what c.IsConnected() returned to it.
Simulation(pc, kind, isConnected) == [pc |-> pc, kind |-> kind, isConnected |-> isConnected]

\* go simulateMarketDataStream(c, figi, ticker)
StartSimulation ==
    /\ ~panicked
    /\ mock.made
    /\ simulation.pc = "idle"
    /\ simulation' = Simulation("select", "none", FALSE)
    /\ UNCHANGED <<mock, real, streams, dispatched, simulated, invoked, subscribedLog, ret,
                   panicked, mu, goroutines, writes>>

\* The select takes the case of a ticker. A ticker can be ready whether or not the
\* context is done: select picks any ready case.
SimulateTick(kind) ==
    /\ ~panicked
    /\ mock.made
    /\ simulation.pc = "select"
    /\ simulated[kind] < MaxSimulated
    /\ simulation' = Simulation("ticked", kind, FALSE)
    /\ UNCHANGED <<mock, real, streams, dispatched, simulated, invoked, subscribedLog, ret,
                   panicked, mu, goroutines, writes>>

\* c.IsConnected(): RLock, read c.connected, RUnlock. The lock is released before the
\* caller acts on the value; when it is false the case ends and the loop selects again.
SimulateIsConnected ==
    /\ ~panicked
    /\ simulation.pc = "ticked"
    /\ simulation' = IF mock.connected
                     THEN Simulation("checked", simulation.kind, TRUE)
                     ELSE Simulation("select", "none", FALSE)
    /\ UNCHANGED <<mock, real, streams, dispatched, simulated, invoked, subscribedLog, ret,
                   panicked, mu, goroutines, writes>>

\* log.Printf("... Simulated ... update") when IsConnected() returned true; no handler
\* is called.
SimulatedAfterTick(isConnected, sim, kind) ==
    IF isConnected THEN [sim EXCEPT ![kind] = @ + 1] ELSE sim

InvokedAfterTick(isConnected, inv, kind) == inv

\* The body of the if: the update is logged, whatever Close did since IsConnected()
\* returned; the loop then selects again.
SimulateLog ==
    /\ ~panicked
    /\ simulation.pc = "checked"
    /\ simulated' = SimulatedAfterTick(simulation.isConnected, simulated, simulation.kind)
    /\ invoked' = InvokedAfterTick(simulation.isConnected, invoked, simulation.kind)
    /\ simulation' = Simulation("select", "none", FALSE)
    /\ UNCHANGED <<mock, real, streams, dispatched, subscribedLog, ret, panicked, mu,
                   goroutines, writes>>

\* The select takes case <-c.Context().Done(): the goroutine returns.
SimulateReturn ==
    /\ ~panicked
    /\ mock.made
    /\ simulation.pc = "select"
    /\ mock.ctx = "cancelled"
    /\ simulation' = Simulation("returned", "none", FALSE)
    /\ UNCHANGED <<mock, real, streams, dispatched, simulated, invoked, subscribedLog, ret,
                   panicked, mu, goroutines, writes>>

----------------------------------------------------------------------------
(* client.RealClient *)

\* NewRealWithConfig followed by connect.
RealConnected(cfg) ==
    [made |-> TRUE, token |-> cfg.Token, serverURL |-> cfg.ServerURL, isDemo |-> cfg.IsDemo,
     conn |-> "open", connected |-> TRUE, ctx |-> "active", accounts |-> "nil"]

\* NewReal / NewRealDemo / NewRealWithDemo; dialOk is grpc.NewClient's outcome.
NewRealWithDemo(token, isDemo, dialOk) ==
    /\ ~panicked
    /\ ~real.made
    /\ LET cfg == ConfigNew(token, isDemo) IN
        IF cfg.err # "nil"
        THEN /\ ret' = Ret("NewRealWithDemo", ErrConfig, "nil", FALSE)
             /\ UNCHANGED real
        ELSE IF ~dialOk
        THEN /\ ret' = Ret("NewRealWithDemo", ErrConnect, "nil", FALSE)
             /\ UNCHANGED real
        ELSE /\ real' = RealConnected(cfg)
             /\ ret' = Ret("NewRealWithDemo", ErrNil, "client", FALSE)
    /\ UNCHANGED <<mock, streams, dispatched, simulated, invoked, subscribedLog, panicked, mu, goroutines, writes, simulation>>

\* NewRealWithConfig(cfg) called with a Config of the caller: cfg.Token of a nil cfg
\* panics; nothing else is checked before grpc.NewClient.
NewRealWithConfig(cfg, dialOk) ==
    /\ ~panicked
    /\ ~real.made
    /\ IF IsNilConfig(cfg)
       THEN /\ panicked' = TRUE
            /\ ret' = Ret("NewRealWithConfig", "panic: nil pointer dereference", "nil", FALSE)
            /\ UNCHANGED real
       ELSE IF ~dialOk
       THEN /\ ret' = Ret("NewRealWithConfig", ErrConnect, "nil", FALSE)
            /\ UNCHANGED <<real, panicked>>
       ELSE /\ real' = RealConnected(cfg)
            /\ ret' = Ret("NewRealWithConfig", ErrNil, "client", FALSE)
            /\ UNCHANGED panicked
    /\ UNCHANGED <<mock, streams, dispatched, simulated, invoked, subscribedLog, mu, goroutines, writes, simulation>>

\* The part of Close that follows the connected check; closeOk is conn.Close()'s outcome.
RealTeardown(c, closeOk) ==
    [c EXCEPT !.ctx = "cancelled",
              !.conn = IF closeOk THEN "closed" ELSE c.conn,
              !.connected = IF closeOk THEN FALSE ELSE c.connected]

RealClose(closeOk) ==
    /\ ~panicked
    /\ real.made
    /\ IF ~real.connected
       THEN /\ ret' = Ret("RealClient.Close", ErrNil, "nil", FALSE)
            /\ UNCHANGED real
       ELSE /\ real' = RealTeardown(real, closeOk)
            /\ ret' = Ret("RealClient.Close", IF closeOk THEN ErrNil ELSE ErrCloseFailed, "nil", FALSE)
    /\ UNCHANGED <<mock, streams, dispatched, simulated, invoked, subscribedLog, panicked, mu, goroutines, writes, simulation>>

\* The unary calls of RealClient other than GetAccounts: all have the body
\* RLock; if !connected return error; issue the RPC; wrap its error.
UnaryOps == {"GetInstrumentByFIGI", "GetInstrumentByTicker", "GetPortfolio", "PostOrder"}

\* The result of a unary call: rpcOk is the outcome of the RPC when one is issued.
RealUnaryResult(c, op, rpcOk) ==
    IF ~c.connected THEN Ret(op, ErrNotConnected, "nil", FALSE)
    ELSE IF ~rpcOk THEN Ret(op, ErrRPC, "nil", TRUE)
    ELSE Ret(op, ErrNil, "resp", TRUE)

RealUnary(op, rpcOk) ==
    /\ ~panicked
    /\ real.made
    /\ ret' = RealUnaryResult(real, op, rpcOk)
    /\ UNCHANGED <<mock, real, streams, dispatched, simulated, invoked, subscribedLog, panicked, mu, goroutines, writes, simulation>>

RealGetAccounts(rpcOk) ==
    /\ ~panicked
    /\ real.made
    /\ ret' = RealUnaryResult(real, "GetAccounts", rpcOk)
    /\ real' = IF real.connected /\ rpcOk THEN [real EXCEPT !.accounts = "resp"] ELSE real
    /\ UNCHANGED <<mock, streams, dispatched, simulated, invoked, subscribedLog, panicked, mu, goroutines, writes, simulation>>

----------------------------------------------------------------------------
(* Streams: StartMarketDataStream, StartOrderStream and the Subscribe* calls *)

\* A stream opened on a context of its own, which Close does not cancel.
StreamAliveOwnContext(c, s) == s.status = "up"

\* A stream lives on the client's context (c.ctx) and on its transport.
StreamAlive(c, s) == s.status = "up" /\ c.ctx = "active"

NewStream(svc) == [svc |-> svc, status |-> "up", sent |-> <<>>, loop |-> "idle"]

\* StartMarketDataStream / StartOrderStream: Lock; connected check; open the stream
\* on c.ctx. startOk is the outcome gRPC gives on a live context.
StartStreamResult(c, op, startOk) ==
    IF ~c.connected THEN Ret(op, ErrNotConnected, "nil", FALSE)
    ELSE IF ~(startOk /\ c.ctx = "active") THEN Ret(op, ErrStartStream, "nil", TRUE)
    ELSE Ret(op, ErrNil, "stream", TRUE)

StartStream(op, svc, startOk) ==
    /\ ~panicked
    /\ real.made
    /\ LET r == StartStreamResult(real, op, startOk) IN
        /\ r.err = ErrNil => Len(streams) < MaxStreams
        /\ ret' = r
        /\ streams' = IF r.err = ErrNil THEN Append(streams, NewStream(svc)) ELSE streams
    /\ UNCHANGED <<mock, real, dispatched, simulated, invoked, subscribedLog, panicked, mu, goroutines, writes, simulation>>

StartMarketDataStream(startOk) == StartStream("StartMarketDataStream", "marketdata", startOk)

StartOrderStream(startOk) == StartStream("StartOrderStream", "orders", startOk)

SUBSCRIBE == "SUBSCRIPTION_ACTION_SUBSCRIBE"

\* The control frames the Subscribe* calls build: one entry per instrument id, in order.
CandlesRequest(instruments, interval, waitingClose) ==
    [payload |-> "SubscribeCandlesRequest", action |-> SUBSCRIBE,
     instruments |-> [i \in 1..Len(instruments) |->
                        [InstrumentId |-> instruments[i], param |-> interval]],
     waitingClose |-> waitingClose]

\* An order-book frame that carries the depth on its first entry only.
OrderBookRequestFirstDepth(instruments, depth) ==
    [payload |-> "SubscribeOrderBookRequest", action |-> SUBSCRIBE,
     instruments |-> [i \in 1..Len(instruments) |->
                        [InstrumentId |-> instruments[i],
                         param |-> IF i = 1 THEN depth ELSE 0]],
     waitingClose |-> FALSE]

OrderBookRequest(instruments, depth) ==
    [payload |-> "SubscribeOrderBookRequest", action |-> SUBSCRIBE,
     instruments |-> [i \in 1..Len(instruments) |->
                        [InstrumentId |-> instruments[i], param |-> depth]],
     waitingClose |-> FALSE]

TradesRequest(instruments) ==
    [payload |-> "SubscribeTradesRequest", action |-> SUBSCRIBE,
     instruments |-> [i \in 1..Len(instruments) |->
                        [InstrumentId |-> instruments[i], param |-> 0]],
     waitingClose |-> FALSE]

LastPriceRequest(instruments) ==
    [payload |-> "SubscribeLastPriceRequest", action |-> SUBSCRIBE,
     instruments |-> [i \in 1..Len(instruments) |->
                        [InstrumentId |-> instruments[i], param |-> 0]],
     waitingClose |-> FALSE]

SubscribeErr(op) ==
    CASE op = "SubscribeCandles" -> "failed to subscribe to candles"
      [] op = "SubscribeOrderBook" -> "failed to subscribe to order book"
      [] op = "SubscribeTrades" -> "failed to subscribe to trades"
      [] op = "SubscribeLastPrices" -> "failed to subscribe to last prices"

SubscribeOps == {"SubscribeCandles", "SubscribeOrderBook", "SubscribeTrades", "SubscribeLastPrices"}

RECURSIVE TotalSent(_)
TotalSent(ss) == IF ss = <<>> THEN 0 ELSE Len(Head(ss).sent) + TotalSent(Tail(ss))

\* stream.Send(req): the frame is on the stream when the stream is alive.
SentAfterSend(c, s, req) == IF StreamAlive(c, s) THEN Append(s.sent, req) ELSE s.sent

\* What a Subscribe* call returns: the wrapped send error, or nil.
SubscribeResult(c, s, op) ==
    IF StreamAlive(c, s) THEN Ret(op, ErrNil, "nil", TRUE)
    ELSE Ret(op, SubscribeErr(op), "nil", FALSE)

\* The common body of the four Subscribe* calls: build req, stream.Send(req), wrap the error.
Subscribe(op, i, req) ==
    /\ ~panicked
    /\ real.made
    /\ i \in 1..Len(streams)
    /\ streams[i].svc = "marketdata"
    /\ StreamAlive(real, streams[i]) => TotalSent(streams) < MaxSent /\ subscribedLog < MaxSent
    /\ streams' = [streams EXCEPT ![i].sent = SentAfterSend(real, streams[i], req)]
    /\ ret' = SubscribeResult(real, streams[i], op)
    /\ subscribedLog' = IF ret'.err = ErrNil THEN subscribedLog + 1 ELSE subscribedLog
    /\ UNCHANGED <<mock, real, dispatched, simulated, invoked, panicked, mu, goroutines, writes, simulation>>

SubscribeCandles(i, instruments, interval, waitingClose) ==
    Subscribe("SubscribeCandles", i, CandlesRequest(instruments, interval, waitingClose))

SubscribeOrderBook(i, instruments, depth) ==
    Subscribe("SubscribeOrderBook", i, OrderBookRequest(instruments, depth))

SubscribeTrades(i, instruments) ==
    Subscribe("SubscribeTrades", i, TradesRequest(instruments))

SubscribeLastPrices(i, instruments) ==
    Subscribe("SubscribeLastPrices", i, LastPriceRequest(instruments))

\* The transport of a stream fails, or the server ends the stream.
StreamFail(i) ==
    /\ ~panicked
    /\ i \in 1..Len(streams)
    /\ streams[i].status = "up"
    /\ streams' = [streams EXCEPT ![i].status = "down"]
    /\ UNCHANGED <<mock, real, dispatched, simulated, invoked, subscribedLog, ret, panicked, mu, goroutines, writes, simulation>>

----------------------------------------------------------------------------
(* The receive loop of the streaming example *)

\* A type switch whose LastPrice frames fall into the trade case and whose pings
\* fall into the trading-status case.
ProcessMarketDataResponseMerged(payload) ==
    CASE payload = "Candle" -> "CANDLE"
      [] payload \in {"Trade", "LastPrice"} -> "TRADE"
      [] payload = "Orderbook" -> "ORDER BOOK"
      [] payload \in {"TradingStatus", "Ping"} -> "TRADING STATUS"
      [] payload = "SubscribeCandlesResponse" -> "candles confirmed"
      [] payload = "SubscribeOrderBookResponse" -> "order book confirmed"
      [] payload = "SubscribeTradesResponse" -> "trades confirmed"
      [] payload = "SubscribeLastPriceResponse" -> "last price confirmed"
      [] OTHER -> "unknown"

\* processMarketDataResponse: the case of the type switch that handles a payload kind.
ProcessMarketDataResponse(payload) ==
    CASE payload = "Candle" -> "CANDLE"
      [] payload = "Trade" -> "TRADE"
      [] payload = "Orderbook" -> "ORDER BOOK"
      [] payload = "LastPrice" -> "LAST PRICE"
      [] payload = "TradingStatus" -> "TRADING STATUS"
      [] payload = "Ping" -> "ping"
      [] payload = "SubscribeCandlesResponse" -> "candles confirmed"
      [] payload = "SubscribeOrderBookResponse" -> "order book confirmed"
      [] payload = "SubscribeTradesResponse" -> "trades confirmed"
      [] payload = "SubscribeLastPriceResponse" -> "last price confirmed"
      [] OTHER -> "unknown"

\* processOrderStreamResponse: the case of the type switch that handles a payload kind.
ProcessOrderStreamResponse(payload) ==
    CASE payload = "OrderState" -> "ORDER"
      [] payload = "Ping" -> "ping"
      [] payload = "Subscription" -> "order stream confirmed"
      [] OTHER -> "unknown"

\* An inbound frame: the payload kind and, for data frames, the instrument and the
\* candle interval it carries. "Nil" is a response without payload, "Unknown" a payload
\* type the switch does not list, "CandleNil" a Candle payload whose Candle is nil, and
\* "Malformed" bytes that do not decode to a response.
Frame(payload, figi, interval) == [payload |-> payload, figi |-> figi, interval |-> interval]

DataPayloads == {"Candle", "Trade", "Orderbook", "LastPrice", "TradingStatus"}

\* go handleMarketDataStream(stream, &wg) / go handleOrderStream(stream, &wg)
StartLoop(i) ==
    /\ ~panicked
    /\ i \in 1..Len(streams)
    /\ streams[i].loop = "idle"
    /\ streams' = [streams EXCEPT ![i].loop = "running"]
    /\ UNCHANGED <<mock, real, dispatched, simulated, invoked, subscribedLog, ret, panicked, mu, goroutines, writes, simulation>>

\* stream.Recv() returns an error: the stream is dead, or the message does not decode.
RecvError(c, s, frame) == ~StreamAlive(c, s) \/ frame.payload = "Malformed"

\* candle := payload.Candle; candle.Figi dereferences a nil Candle. Nothing recovers.
HandlingPanics(frame) == frame.payload = "CandleNil"

\* The state of the loop after stream.Recv(): any error, io.EOF included, returns;
\* a panic while handling ends the goroutine.
LoopAfterRecv(c, s, frame) ==
    IF RecvError(c, s, frame) THEN "stopped"
    ELSE IF HandlingPanics(frame) THEN "crashed"
    ELSE "running"

\* The request kind that asks for a data payload kind.
RequestFor(payload) ==
    CASE payload = "Candle" -> "SubscribeCandlesRequest"
      [] payload = "Trade" -> "SubscribeTradesRequest"
      [] payload = "Orderbook" -> "SubscribeOrderBookRequest"
      [] payload = "LastPrice" -> "SubscribeLastPriceRequest"
      [] OTHER -> "none"

\* The first n frames sent on a stream ask for this kind of data on this instrument.
SubscribedTo(sent, n, frame) ==
    \E k \in 1..n : /\ sent[k].payload = RequestFor(frame.payload)
                    /\ \E m \in 1..Len(sent[k].instruments) :
                          sent[k].instruments[m].InstrumentId = frame.figi

\* ... and, for candles, at this interval.
SubscribedAtInterval(sent, n, frame) ==
    \E k \in 1..n : /\ sent[k].payload = RequestFor(frame.payload)
                    /\ \E m \in 1..Len(sent[k].instruments) :
                          /\ sent[k].instruments[m].InstrumentId = frame.figi
                          /\ sent[k].instruments[m].param = frame.interval

\* processMarketDataResponse(resp) / processOrderStreamResponse(resp): the switch looks
\* at the payload type only, never at what was sent on the stream.
Handle(s, frame) ==
    IF s.svc = "orders" THEN ProcessOrderStreamResponse(frame.payload)
    ELSE ProcessMarketDataResponse(frame.payload)

\* How many frames of stream i have been handled.
Handled(log, i) == Cardinality({n \in 1..Len(log) : log[n].stream = i})

\* A loop that hands each frame to a goroutine of its own: a later frame may finish first.
DispatchedAfterAsync(log, entry) == <<entry>> \o log

\* The loop handles the frame before it calls Recv again.
DispatchedAfter(log, entry) == Append(log, entry)

\* One iteration of handleMarketDataStream / handleOrderStream: stream.Recv(), then
\* either return or process the response. frame is what the server sent.
Recv(i, frame) ==
    /\ ~panicked
    /\ i \in 1..Len(streams)
    /\ streams[i].loop = "running"
    /\ ~RecvError(real, streams[i], frame) => Len(dispatched) < MaxRecv
    /\ streams' = [streams EXCEPT
         ![i].loop = LoopAfterRecv(real, streams[i], frame),
         ![i].status = IF frame.payload = "Malformed" THEN "down" ELSE @]
    /\ panicked' = (~RecvError(real, streams[i], frame) /\ HandlingPanics(frame))
    /\ dispatched' =
         IF RecvError(real, streams[i], frame) \/ HandlingPanics(frame)
         THEN dispatched
         ELSE DispatchedAfter(dispatched,
                [stream |-> i, payload |-> frame.payload, figi |-> frame.figi,
                 interval |-> frame.interval,
                 handledBy |-> Handle(streams[i], frame),
                 nsent |-> Len(streams[i].sent),
                 seq |-> Handled(dispatched, i) + 1])
    /\ UNCHANGED <<mock, real, simulated, invoked, subscribedLog, ret, mu, goroutines, writes, simulation>>

----------------------------------------------------------------------------
(* Goroutines calling one Client and one RealClient concurrently *)

\* The calls a goroutine makes: the ones that take c.mu.RLock(), Close, which takes
\* c.mu.Lock(), and SubscribeCandles, which takes no lock.
RLockOps == {"RealClient.PostOrder", "RealClient.GetAccounts", "Client.GetAccounts"}
CloseOp == "RealClient.Close"
SendOp == "SubscribeCandles"

ClientOf(op) == IF op = "Client.GetAccounts" THEN "Client" ELSE "RealClient"

\* A Lock() that does not wait for the readers.
MayLockOverReaders(m) == m.writer = 0

\* c.mu.Lock() returns when nobody holds the mutex.
MayLock(m) == m.writer = 0 /\ m.readers = {}

\* c.mu.RLock() returns when nobody holds the write lock.
MayRLock(m) == m.writer = 0

\* The lock of m that goroutine g holds.
HeldBy(m, g) == IF m.writer = g THEN "Lock" ELSE IF g \in m.readers THEN "RLock" ELSE "none"

Write(client, field, held) == [client |-> client, field |-> field, held |-> held]

\* A Close call holds the mutex of the RealClient.
CloseHasLock ==
    \E h \in Goroutines :
        goroutines[h].op = CloseOp /\ goroutines[h].pc \in {"locked", "closing", "returning"}

\* The goroutines inside stream.Send on stream i.
Senders(i) == {h \in Goroutines : goroutines[h].pc = "sending" /\ goroutines[h].stream = i}

\* A goroutine calls op (on stream i, for SubscribeCandles).
Go(g, op, i) ==
    /\ ~panicked
    /\ goroutines[g].pc = "idle"
    /\ op = SendOp => i \in 1..Len(streams)
    /\ goroutines' = [goroutines EXCEPT ![g] =
          [op |-> op, pc |-> "called", stream |-> IF op = SendOp THEN i ELSE 0,
           err |-> ErrNil, rpc |-> FALSE,
           afterClose |-> CloseHasLock \/ real.ctx = "cancelled"]]
    /\ UNCHANGED <<mock, real, streams, dispatched, simulated, invoked, subscribedLog, ret,
                   panicked, mu, writes, simulation>>

\* c.mu.RLock() at the top of a unary call.
AcquireRLock(g) ==
    /\ goroutines[g].op \in RLockOps
    /\ goroutines[g].pc = "called"
    /\ LET c == ClientOf(goroutines[g].op) IN
         /\ MayRLock(mu[c])
         /\ mu' = [mu EXCEPT ![c].readers = @ \cup {g}]
    /\ goroutines' = [goroutines EXCEPT ![g].pc = "rlocked"]
    /\ UNCHANGED <<mock, real, streams, dispatched, simulated, invoked, subscribedLog, ret,
                   panicked, writes, simulation>>

\* if !c.connected { return error }; a RealClient call then issues its RPC, and
\* Client.GetAccounts fills c.accounts when it is nil and returns it.
CheckConnected(g) ==
    /\ goroutines[g].op \in RLockOps
    /\ goroutines[g].pc = "rlocked"
    /\ LET op == goroutines[g].op
           c == ClientOf(op)
       IN IF c = "Client"
          THEN /\ goroutines' = [goroutines EXCEPT
                     ![g].pc = "returning",
                     ![g].err = IF mock.connected THEN ErrNil ELSE ErrNotConnected]
               /\ mock' = IF mock.connected
                          THEN [mock EXCEPT !.accounts = "mock-account-1"] ELSE mock
               /\ writes' = IF mock.connected /\ mock.accounts = "nil"
                            THEN writes \cup {Write(c, "accounts", HeldBy(mu[c], g))}
                            ELSE writes
          ELSE /\ goroutines' = [goroutines EXCEPT
                     ![g].pc = IF real.connected THEN "rpc" ELSE "returning",
                     ![g].rpc = real.connected,
                     ![g].err = IF real.connected THEN ErrNil ELSE ErrNotConnected]
               /\ UNCHANGED <<mock, writes>>
    /\ UNCHANGED <<real, streams, dispatched, simulated, invoked, subscribedLog, ret,
                   panicked, mu, simulation>>

\* The RPC of a unary call returns; GetAccounts then caches resp.Accounts.
RpcReturns(g, rpcOk) ==
    /\ goroutines[g].pc = "rpc"
    /\ goroutines' = [goroutines EXCEPT
          ![g].pc = "returning", ![g].err = IF rpcOk THEN ErrNil ELSE ErrRPC]
    /\ IF rpcOk /\ goroutines[g].op = "RealClient.GetAccounts"
       THEN /\ real' = [real EXCEPT !.accounts = "resp"]
            /\ writes' = writes \cup {Write("RealClient", "accounts", HeldBy(mu["RealClient"], g))}
       ELSE UNCHANGED <<real, writes>>
    /\ UNCHANGED <<mock, streams, dispatched, simulated, invoked, subscribedLog, ret,
                   panicked, mu, simulation>>

\* The deferred c.mu.RUnlock(): the call returns.
ReleaseRLock(g) ==
    /\ goroutines[g].op \in RLockOps
    /\ goroutines[g].pc = "returning"
    /\ mu' = [mu EXCEPT ![ClientOf(goroutines[g].op)].readers = @ \ {g}]
    /\ ret' = Ret(goroutines[g].op, goroutines[g].err,
                  IF goroutines[g].err # ErrNil THEN "nil"
                  ELSE IF goroutines[g].op = "Client.GetAccounts" THEN "mock-account-1"
                  ELSE "resp",
                  goroutines[g].rpc)
    /\ goroutines' = [goroutines EXCEPT ![g] = Idle]
    /\ UNCHANGED <<mock, real, streams, dispatched, simulated, invoked, subscribedLog,
                   panicked, writes, simulation>>

\* c.mu.Lock() at the top of Close.
AcquireLock(g) ==
    /\ goroutines[g].op = CloseOp
    /\ goroutines[g].pc = "called"
    /\ MayLock(mu["RealClient"])
    /\ mu' = [mu EXCEPT !["RealClient"].writer = g]
    /\ goroutines' = [goroutines EXCEPT ![g].pc = "locked"]
    /\ UNCHANGED <<mock, real, streams, dispatched, simulated, invoked, subscribedLog, ret,
                   panicked, writes, simulation>>

\* Close: if !c.connected { return nil }; c.cancel().
CloseCancel(g) ==
    /\ goroutines[g].op = CloseOp
    /\ goroutines[g].pc = "locked"
    /\ goroutines' = [goroutines EXCEPT
          ![g].pc = IF real.connected THEN "closing" ELSE "returning"]
    /\ real' = IF real.connected THEN [real EXCEPT !.ctx = "cancelled"] ELSE real
    /\ UNCHANGED <<mock, streams, dispatched, simulated, invoked, subscribedLog, ret,
                   panicked, mu, writes, simulation>>

\* Close: c.conn.Close() returns, and on success c.connected = false.
CloseConn(g, closeOk) ==
    /\ goroutines[g].op = CloseOp
    /\ goroutines[g].pc = "closing"
    /\ real' = RealTeardown(real, closeOk)
    /\ writes' = IF closeOk
                 THEN writes \cup {Write("RealClient", "connected", HeldBy(mu["RealClient"], g))}
                 ELSE writes
    /\ goroutines' = [goroutines EXCEPT
          ![g].pc = "returning", ![g].err = IF closeOk THEN ErrNil ELSE ErrCloseFailed]
    /\ UNCHANGED <<mock, streams, dispatched, simulated, invoked, subscribedLog, ret,
                   panicked, mu, simulation>>

\* The deferred c.mu.Unlock(): Close returns.
ReleaseLock(g) ==
    /\ goroutines[g].op = CloseOp
    /\ goroutines[g].pc = "returning"
    /\ mu' = [mu EXCEPT !["RealClient"].writer = 0]
    /\ ret' = Ret("RealClient.Close", goroutines[g].err, "nil", FALSE)
    /\ goroutines' = [goroutines EXCEPT ![g] = Idle]
    /\ UNCHANGED <<mock, real, streams, dispatched, simulated, invoked, subscribedLog,
                   panicked, writes, simulation>>

\* SubscribeCandles builds its request and enters stream.Send(req); it takes no lock.
SendBegin(g) ==
    /\ goroutines[g].op = SendOp
    /\ goroutines[g].pc = "called"
    /\ TotalSent(streams) + Cardinality(UNION {Senders(i) : i \in 1..Len(streams)}) < MaxSent
    /\ goroutines' = [goroutines EXCEPT ![g].pc = "sending"]
    /\ UNCHANGED <<mock, real, streams, dispatched, simulated, invoked, subscribedLog, ret,
                   panicked, mu, writes, simulation>>

\* stream.Send(req) returns and SubscribeCandles wraps its error.
SendEnd(g) ==
    /\ goroutines[g].pc = "sending"
    /\ LET i == goroutines[g].stream IN
         /\ streams' = [streams EXCEPT ![i].sent =
                SentAfterSend(real, streams[i], CandlesRequest(<<"X">>, 1, FALSE))]
         /\ ret' = SubscribeResult(real, streams[i], SendOp)
    /\ subscribedLog' = IF ret'.err = ErrNil THEN subscribedLog + 1 ELSE subscribedLog
    /\ goroutines' = [goroutines EXCEPT ![g] = Idle]
    /\ UNCHANGED <<mock, real, dispatched, simulated, invoked, panicked, mu, writes, simulation>>

----------------------------------------------------------------------------
(* internal.RetryConfig *)

\* A time.Duration (int64 nanoseconds) of the form m * 2^e, |m| < 2^31, kept with m odd
\* or m = 0, so that equal durations are equal records.
RECURSIVE Duration(_, _)
Duration(m, e) ==
    IF m = 0 THEN [m |-> 0, e |-> 0]
    ELSE IF m % 2 = 0 THEN Duration(m \div 2, e + 1)
    ELSE [m |-> m, e |-> e]

\* floor(m / 2^s)
FloorShift(m, s) == IF s >= 31 THEN (IF m >= 0 THEN 0 ELSE -1) ELSE m \div (2^s)

\* a > b on int64
DurationGt(a, b) ==
    IF a.e >= b.e THEN a.m > FloorShift(b.m, a.e - b.e)
    ELSE b.m < -FloorShift(-a.m, b.e - a.e)

DurationLe(a, b) == ~DurationGt(a, b)

\* m * 2^e in 64-bit two's complement: the low 64 bits, read as a signed number.
Wrap64(m, e) ==
    IF e >= 64 THEN Duration(0, 0)
    ELSE IF 64 - e > 31 THEN Duration(m, e)
    ELSE LET w == 64 - e
             low == m % (2^w)
         IN Duration(IF low >= 2^(w - 1) THEN low - 2^w ELSE low, e)

\* delay *= 2
Double(d) == Wrap64(d.m, d.e + 1)

RetryConfig(maxRetries, baseDelay, maxDelay) ==
    [MaxRetries |-> maxRetries, BaseDelay |-> baseDelay, MaxDelay |-> maxDelay]

\* MaxRetries 3, BaseDelay 100ms = 390625 * 2^8 ns, MaxDelay 5s = 9765625 * 2^9 ns.
DefaultRetryConfig == RetryConfig(3, Duration(390625, 8), Duration(9765625, 9))

\* The loop of CalculateBackoff from iteration i on.
RECURSIVE BackoffLoop(_, _, _, _)
BackoffLoop(delay, maxDelay, i, attempt) ==
    IF i >= attempt THEN delay
    ELSE IF DurationGt(Double(delay), maxDelay) THEN maxDelay
    ELSE BackoffLoop(Double(delay), maxDelay, i + 1, attempt)

CalculateBackoff(rc, attempt) == BackoffLoop(rc.BaseDelay, rc.MaxDelay, 0, attempt)

MaxAttempt == 3

BaseDelays ==
    {Duration(-1, 0), Duration(0, 0), Duration(1, 0), Duration(3, 0), Duration(1, 62),
     DefaultRetryConfig.BaseDelay}

MaxDelays ==
    {Duration(0, 0), Duration(1, 0), Duration(1, 2), Duration(1, 62), Duration(3, 61),
     DefaultRetryConfig.MaxDelay}

\* rc.CalculateBackoff(attempt)
CallCalculateBackoff(rc, attempt) ==
    /\ ret' = Ret("CalculateBackoff", ErrNil,
                  [rc |-> rc, attempt |-> attempt, delay |-> CalculateBackoff(rc, attempt)],
                  FALSE)
    /\ UNCHANGED <<mock, real, streams, dispatched, simulated, invoked, subscribedLog, panicked, mu, goroutines, writes, simulation>>

----------------------------------------------------------------------------
(* types.MoneyValue and types.Quotation *)

NanoPerUnit == 1000000000

MaxInt32 == 2147483647
MinInt32 == -MaxInt32 - 1

\* A float64 argument. A finite value is whole + frac / 10^9 with a fraction that
\* float64 holds exactly; "huge" is a value of magnitude 1e19, beyond int64, with the
\* sign in whole; "NaN" is not a number.
FloatValue(class, whole, frac) == [class |-> class, whole |-> whole, frac |-> frac]

Wholes == {-123, -15, 0, 10, 123, 275}
Fracs == {-750000000, -500000000, -250000000, 0, 250000000, 500000000, 750000000}

FloatValues ==
    {v \in {FloatValue("finite", w, f) : w \in Wholes, f \in Fracs} :
        (v.whole >= 0 \/ v.frac <= 0) /\ (v.whole <= 0 \/ v.frac >= 0)}
    \cup {FloatValue("huge", 1, 0), FloatValue("huge", -1, 0), FloatValue("NaN", 0, 0)}

Currencies == {"rub", "usd", ""}

\* An int64: a number the model can hold, or one of the two ends of the type.
Int64(n) == [kind |-> "n", n |-> n]
MinInt64 == [kind |-> "MinInt64", n |-> 0]
MaxInt64 == [kind |-> "MaxInt64", n |-> 0]

\* Go leaves a float-to-integer conversion of a value the type cannot hold to the
\* implementation: amd64 yields the minimum of the type, arm64 saturates and maps NaN to 0.
Builds == {"amd64", "arm64"}

\* units := int64(value)
UnitsOf(value, build) ==
    IF value.class = "finite" THEN Int64(value.whole)
    ELSE IF build = "amd64" THEN MinInt64
    ELSE IF value.class = "NaN" THEN Int64(0)
    ELSE IF value.whole > 0 THEN MaxInt64 ELSE MinInt64

\* nano := int32((value - float64(units)) * 1e9)
\* For a huge value the difference is huge as well: value + 2^63 after amd64's
\* MinInt64, value - 2^63 after arm64's MaxInt64.
NanoOf(value, build) ==
    IF value.class = "finite" THEN value.frac
    ELSE IF build = "amd64" THEN MinInt32
    ELSE IF value.class = "NaN" THEN 0
    ELSE IF value.whole > 0 THEN MaxInt32 ELSE MinInt32

NewQuotation(value, build) ==
    [Units |-> UnitsOf(value, build), Nano |-> NanoOf(value, build)]

NewMoneyValue(value, currency, build) ==
    [Currency |-> currency, Units |-> UnitsOf(value, build), Nano |-> NanoOf(value, build)]

\* float64(Units) + float64(Nano)/1e9, to the nano digit. float64(MinInt64) is -2^63
\* and float64(MaxInt64) rounds to 2^63; a Nano of a few units is absorbed by either.
\* Nano = (Nano \div 10^9) * 10^9 + (Nano % 10^9) with a remainder in 0 .. 10^9 - 1.
ToFloat(x) ==
    IF x.Units.kind = "MinInt64" THEN FloatValue("2^63", -1, 0)
    ELSE IF x.Units.kind = "MaxInt64" THEN FloatValue("2^63", 1, 0)
    ELSE LET whole == x.Units.n + (x.Nano \div NanoPerUnit)
             frac == x.Nano % NanoPerUnit
         IN IF whole < 0 /\ frac > 0
            THEN FloatValue("finite", whole + 1, frac - NanoPerUnit)
            ELSE FloatValue("finite", whole, frac)

\* The MoneyValue and Quotation structs ToFloat is called on: any Units with any Nano.
Nanos == Fracs \cup {MinInt32, MaxInt32}

Quotations ==
    {[Units |-> Int64(w), Nano |-> f] : w \in Wholes, f \in Nanos}
    \cup {[Units |-> u, Nano |-> f] : u \in {MinInt64, MaxInt64}, f \in {MinInt32, 0, MaxInt32}}

\* q.ToFloat() / m.ToFloat()
CallToFloat(x) ==
    /\ ret' = Ret("ToFloat", ErrNil, [value |-> x, currency |-> "", result |-> ToFloat(x)], FALSE)
    /\ UNCHANGED <<mock, real, streams, dispatched, simulated, invoked, subscribedLog, panicked, mu, goroutines, writes, simulation>>

\* NewQuotation(value).ToFloat()
CallQuotationRoundTrip(value, build) ==
    /\ ret' = Ret("NewQuotation.ToFloat", ErrNil,
                  [value |-> value, currency |-> "",
                   result |-> ToFloat(NewQuotation(value, build))],
                  FALSE)
    /\ UNCHANGED <<mock, real, streams, dispatched, simulated, invoked, subscribedLog, panicked, mu, goroutines, writes, simulation>>

\* NewMoneyValue(value, currency).ToFloat()
CallMoneyValueRoundTrip(value, currency, build) ==
    /\ ret' = Ret("NewMoneyValue.ToFloat", ErrNil,
                  [value |-> value, currency |-> currency,
                   result |-> ToFloat(NewMoneyValue(value, currency, build))],
                  FALSE)
    /\ UNCHANGED <<mock, real, streams, dispatched, simulated, invoked, subscribedLog, panicked, mu, goroutines, writes, simulation>>

CallNewQuotation(value, build) ==
    /\ ret' = Ret("NewQuotation", ErrNil,
                  [value |-> value, currency |-> "", result |-> NewQuotation(value, build)],
                  FALSE)
    /\ UNCHANGED <<mock, real, streams, dispatched, simulated, invoked, subscribedLog, panicked, mu, goroutines, writes, simulation>>

CallNewMoneyValue(value, currency, build) ==
    /\ ret' = Ret("NewMoneyValue", ErrNil,
                  [value |-> value, currency |-> currency,
                   result |-> NewMoneyValue(value, currency, build)],
                  FALSE)
    /\ UNCHANGED <<mock, real, streams, dispatched, simulated, invoked, subscribedLog, panicked, mu, goroutines, writes, simulation>>

----------------------------------------------------------------------------------------------------------------------------------------
(* Specifications *)

\* The life cycle of a client: construction, calls, Close.
\* A program works with the Client (the mock examples) or with the RealClient (the
\* real-API examples); the two clients share no state. A RealClient program opens its
\* market data stream and then its order stream, as the streaming example does.
ClientProgram == ~real.made
RealProgram == ~mock.made

Next ==
    \/ ClientProgram /\ \E t \in Tokens, d \in BOOLEAN, ok \in BOOLEAN : NewWithDemo(t, d, ok)
    \/ ClientProgram /\ \E cfg \in CallerConfigs, ok \in BOOLEAN : NewWithConfig(cfg, ok)
    \/ \E ok \in BOOLEAN : ClientClose(ok)
    \/ ClientGetAccounts
    \/ \E f \in Figis : ClientGetInstrumentByFIGI(f)
    \/ \E t \in Tickers, cc \in ClassCodes : ClientGetInstrumentByTicker(t, cc)
    \/ \E k \in DataKinds, h \in UserHandlers : ClientOn(k, h)
    \/ StartSimulation
    \/ \E k \in DataKinds : SimulateTick(k)
    \/ SimulateIsConnected
    \/ SimulateLog
    \/ SimulateReturn
    \/ RealProgram /\ \E t \in Tokens, d \in BOOLEAN, ok \in BOOLEAN : NewRealWithDemo(t, d, ok)
    \/ RealProgram /\ \E cfg \in CallerConfigs, ok \in BOOLEAN : NewRealWithConfig(cfg, ok)
    \/ \E ok \in BOOLEAN : RealClose(ok)
    \/ \E op \in UnaryOps, ok \in BOOLEAN : RealUnary(op, ok)
    \/ \E ok \in BOOLEAN : RealGetAccounts(ok)
    \/ Len(streams) = 0 /\ \E ok \in BOOLEAN : StartMarketDataStream(ok)
    \/ Len(streams) = 1 /\ \E ok \in BOOLEAN : StartOrderStream(ok)
    \/ \E i \in 1..Len(streams) : SubscribeCandles(i, <<"X">>, 1, FALSE)
    \/ \E i \in 1..Len(streams) : SubscribeOrderBook(i, <<"X">>, 10)
    \/ \E i \in 1..Len(streams) : SubscribeTrades(i, <<"X">>)
    \/ \E i \in 1..Len(streams) : SubscribeLastPrices(i, <<"X">>)

Spec == Init /\ [][Next]_vars

\* The state a successful NewRealDemo leaves: the start of a streaming session.
InitStream ==
    /\ mock = NoMock
    /\ real = RealConnected(ConfigNew("t0ken", TRUE))
    /\ streams = <<>>
    /\ dispatched = <<>>
    /\ simulated = [k \in DataKinds |-> 0]
    /\ invoked = [k \in DataKinds |-> 0]
    /\ subscribedLog = 0
    /\ ret = NoRet
    /\ panicked = FALSE
    /\ NoCalls
    /\ simulation = [pc |-> "idle", kind |-> "none", isConnected |-> FALSE]

\* Subscribing on the streams of a connected RealClient while transports fail; the
\* caller opens a new stream once the streams it holds are down.
NextStream ==
    \/ /\ \A j \in 1..Len(streams) : streams[j].status = "down"
       /\ \E ok \in BOOLEAN : StartMarketDataStream(ok)
    \/ \E i \in 1..Len(streams), ins \in {<<"X">>, <<"">>} : SubscribeCandles(i, ins, 1, FALSE)
    \/ \E i \in 1..Len(streams), d \in {10, 51} : SubscribeOrderBook(i, <<"Y">>, d)
    \/ \E i \in 1..Len(streams) : SubscribeTrades(i, <<"X">>)
    \/ \E i \in 1..Len(streams) : SubscribeLastPrices(i, <<"X">>)
    \/ \E i \in 1..Len(streams) : StreamFail(i)
    \/ \E ok \in BOOLEAN : RealClose(ok)

SpecStream == InitStream /\ [][NextStream]_vars

\* The four Subscribe* calls with lists of several instruments, on live and failed
\* streams of a connected RealClient.
InstrumentLists == {<<"X">>, <<"Y", "X">>}
CandleIntervals == {5}
Depths == {20}

NextSubscribe ==
    \/ /\ \A j \in 1..Len(streams) : streams[j].status = "down"
       /\ \E ok \in BOOLEAN : StartMarketDataStream(ok)
    \/ \E i \in 1..Len(streams), ins \in InstrumentLists, iv \in CandleIntervals :
          SubscribeCandles(i, ins, iv, FALSE)
    \/ \E i \in 1..Len(streams), d \in Depths : SubscribeOrderBook(i, <<"Y", "X">>, d)
    \/ \E i \in 1..Len(streams) : SubscribeTrades(i, <<"Y", "X">>)
    \/ \E i \in 1..Len(streams) : SubscribeLastPrices(i, <<"X", "Y">>)
    \/ \E i \in 1..Len(streams) : StreamFail(i)
    \/ \E ok \in BOOLEAN : RealClose(ok)

SpecSubscribe == InitStream /\ [][NextSubscribe]_vars

\* One market data stream with its receive loop, as the streaming example runs it.
RecvPayloads == {"Candle", "SubscribeCandlesResponse", "Ping"}

NextRecv ==
    \/ Len(streams) = 0 /\ StartMarketDataStream(TRUE)
    \/ \E i \in 1..Len(streams), iv \in {1, 2} : SubscribeCandles(i, <<"X">>, iv, FALSE)
    \/ \E i \in 1..Len(streams) : StreamFail(i)
    \/ \E i \in 1..Len(streams) : StartLoop(i)
    \/ \E i \in 1..Len(streams), p \in RecvPayloads : Recv(i, Frame(p, "X", 1))
    \/ \E ok \in BOOLEAN : RealClose(ok)

SpecRecv == InitStream /\ [][NextRecv]_vars

\* The receive loop of one market data stream under every kind of inbound frame.
DispatchFrames ==
    {Frame("Candle", "X", 1), Frame("Candle", "X", 2), Frame("Trade", "Y", 0),
     Frame("Nil", "", 0), Frame("Unknown", "", 0), Frame("Malformed", "", 0),
     Frame("CandleNil", "", 0)}

NextDispatch ==
    \/ Len(streams) = 0 /\ StartMarketDataStream(TRUE)
    \/ \E i \in 1..Len(streams) : SubscribeCandles(i, <<"X">>, 1, FALSE)
    \/ \E i \in 1..Len(streams) : StreamFail(i)
    \/ \E i \in 1..Len(streams) : StartLoop(i)
    \/ \E i \in 1..Len(streams), f \in DispatchFrames : Recv(i, f)
    \/ \E ok \in BOOLEAN : RealClose(ok)

SpecDispatch == InitStream /\ [][NextDispatch]_vars

\* The receive loops of a market data stream and an order stream under every payload
\* kind their responses can carry.
MarketPayloads ==
    DataPayloads \cup {"Ping", "SubscribeCandlesResponse", "SubscribeOrderBookResponse",
                       "SubscribeTradesResponse", "SubscribeLastPriceResponse", "Unknown"}

OrderPayloads == {"OrderState", "Ping", "Subscription"}

NextClassify ==
    \/ Len(streams) = 0 /\ StartMarketDataStream(TRUE)
    \/ Len(streams) = 1 /\ StartOrderStream(TRUE)
    \/ \E i \in 1..Len(streams) : StartLoop(i)
    \/ \E i \in 1..Len(streams), p \in MarketPayloads :
          streams[i].svc = "marketdata" /\ Recv(i, Frame(p, "X", 1))
    \/ \E i \in 1..Len(streams), p \in OrderPayloads :
          streams[i].svc = "orders" /\ Recv(i, Frame(p, "", 0))
    \/ \E i \in 1..Len(streams) : StreamFail(i)

SpecClassify == InitStream /\ [][NextClassify]_vars

\* Goroutines sharing a connected Client and a connected RealClient: unary calls and Close.
InitLocks ==
    /\ mock = ClientConnected(ConfigNew("t0ken", TRUE))
    /\ real = RealConnected(ConfigNew("t0ken", TRUE))
    /\ streams = <<>>
    /\ dispatched = <<>>
    /\ simulated = [k \in DataKinds |-> 0]
    /\ invoked = [k \in DataKinds |-> 0]
    /\ subscribedLog = 0
    /\ ret = NoRet
    /\ panicked = FALSE
    /\ NoCalls
    /\ simulation = [pc |-> "idle", kind |-> "none", isConnected |-> FALSE]

NextLocks ==
    \/ \E g \in Goroutines, op \in RLockOps \cup {CloseOp} : Go(g, op, 0)
    \/ \E g \in Goroutines : AcquireRLock(g)
    \/ \E g \in Goroutines : CheckConnected(g)
    \/ \E g \in Goroutines, ok \in BOOLEAN : RpcReturns(g, ok)
    \/ \E g \in Goroutines : ReleaseRLock(g)
    \/ \E g \in Goroutines : AcquireLock(g)
    \/ \E g \in Goroutines : CloseCancel(g)
    \/ \E g \in Goroutines, ok \in BOOLEAN : CloseConn(g, ok)
    \/ \E g \in Goroutines : ReleaseLock(g)

SpecLocks == InitLocks /\ [][NextLocks]_vars

\* Goroutines sharing one market data stream of a connected RealClient: SubscribeCandles
\* and Close.
InitSends ==
    /\ mock = NoMock
    /\ real = RealConnected(ConfigNew("t0ken", TRUE))
    /\ streams = <<NewStream("marketdata")>>
    /\ dispatched = <<>>
    /\ simulated = [k \in DataKinds |-> 0]
    /\ invoked = [k \in DataKinds |-> 0]
    /\ subscribedLog = 0
    /\ ret = NoRet
    /\ panicked = FALSE
    /\ NoCalls
    /\ simulation = [pc |-> "idle", kind |-> "none", isConnected |-> FALSE]

NextSends ==
    \/ \E g \in Goroutines : Go(g, SendOp, 1)
    \/ \E g \in Goroutines : Go(g, CloseOp, 0)
    \/ \E g \in Goroutines : SendBegin(g)
    \/ \E g \in Goroutines : SendEnd(g)
    \/ \E g \in Goroutines : AcquireLock(g)
    \/ \E g \in Goroutines : CloseCancel(g)
    \/ \E g \in Goroutines, ok \in BOOLEAN : CloseConn(g, ok)
    \/ \E g \in Goroutines : ReleaseLock(g)

SpecSends == InitSends /\ [][NextSends]_vars

\* CalculateBackoff on every retry configuration and attempt.
NextBackoff ==
    \E b \in BaseDelays, m \in MaxDelays, a \in 0..MaxAttempt :
        CallCalculateBackoff(RetryConfig(3, b, m), a)

SpecBackoff == Init /\ [][NextBackoff]_vars

\* NewQuotation, NewMoneyValue and ToFloat on every value, currency and build.
NextMoney ==
    \/ \E v \in FloatValues, b \in Builds : CallNewQuotation(v, b)
    \/ \E v \in FloatValues, c \in Currencies, b \in Builds : CallNewMoneyValue(v, c, b)
    \/ \E x \in Quotations : CallToFloat(x)
    \/ \E v \in FloatValues, b \in Builds : CallQuotationRoundTrip(v, b)
    \/ \E v \in FloatValues, c \in Currencies, b \in Builds : CallMoneyValueRoundTrip(v, c, b)

SpecMoney == Init /\ [][NextMoney]_vars

\* The receive loops of the market data stream and the order stream the streaming
\* example opens, in that order, up to Close.
LoopFrames == {Frame("Ping", "", 0)}

NextLoops ==
    \/ Len(streams) = 0 /\ StartMarketDataStream(TRUE)
    \/ Len(streams) = 1 /\ StartOrderStream(TRUE)
    \/ \E i \in 1..Len(streams) : StreamFail(i)
    \/ \E i \in 1..Len(streams) : StartLoop(i)
    \/ \E i \in 1..Len(streams), f \in LoopFrames : Recv(i, f)
    \/ \E ok \in BOOLEAN : RealClose(ok)

\* A goroutine blocked in stream.Recv() runs again once Recv returns, and Recv on a
\* stream whose context is cancelled returns.
SpecLoops ==
    /\ InitStream
    /\ [][NextLoops]_vars
    /\ \A i \in 1..MaxStreams : WF_vars(\E f \in LoopFrames : Recv(i, f))

----------------------------------------------------------------------------
(* Claims *)

MockClosedBefore == mock.made /\ mock.ctx = "cancelled"
RealClosedBefore == real.made /\ real.ctx = "cancelled"

\* C1: Close is idempotent on Client and RealClient: whatever the first Close
\* returned, a later Close returns no error, does not panic and changes nothing.
C1_CloseIdempotent ==
    [][ /\ (MockClosedBefore /\ \E ok \in BOOLEAN : ClientClose(ok))
            => (ret'.err = ErrNil /\ ~panicked' /\ mock' = mock)
        /\ (RealClosedBefore /\ \E ok \in BOOLEAN : RealClose(ok))
            => (ret'.err = ErrNil /\ real' = real) ]_vars

MockTornDown(c) ==
    /\ c.ctx = "cancelled" /\ c.conn = "closed" /\ ~c.connected
    /\ c.candleCh = "closed" /\ c.tradeCh = "closed" /\ c.orderBookCh = "closed"

MockIntact(c) ==
    /\ c.ctx = "active" /\ c.conn = "open" /\ c.connected
    /\ c.candleCh = "open" /\ c.tradeCh = "open" /\ c.orderBookCh = "open"

RealTornDown(c) == c.ctx = "cancelled" /\ c.conn = "closed" /\ ~c.connected

RealIntact(c) == c.ctx = "active" /\ c.conn = "open" /\ c.connected

\* C2: Close never leaves a client half torn down: after Close returns, with or
\* without an error, either the whole teardown happened or none of it.
C2_NoHalfTeardown ==
    /\ mock.made => (MockTornDown(mock) \/ MockIntact(mock))
    /\ real.made => (RealTornDown(real) \/ RealIntact(real))

\* C3: once Close has returned without error, every operation attempted on the
\* client fails with the not-connected error and hands nothing to the transport.
C3_ClosedClientRejectsAll ==
    [][ /\ ( /\ MockClosedBefore /\ ~mock.connected
             /\ \/ ClientGetAccounts
                \/ \E f \in Figis : ClientGetInstrumentByFIGI(f)
                \/ \E t \in Tickers, cc \in ClassCodes : ClientGetInstrumentByTicker(t, cc) )
            => (ret'.err = ErrNotConnected /\ ~ret'.rpc)
        /\ ( /\ RealClosedBefore /\ ~real.connected
             /\ \/ \E op \in UnaryOps, ok \in BOOLEAN : RealUnary(op, ok)
                \/ \E ok \in BOOLEAN : RealGetAccounts(ok)
                \/ \E ok \in BOOLEAN : StartMarketDataStream(ok)
                \/ \E ok \in BOOLEAN : StartOrderStream(ok)
                \/ \E i \in 1..Len(streams) : SubscribeCandles(i, <<"X">>, 1, FALSE)
                \/ \E i \in 1..Len(streams) : SubscribeOrderBook(i, <<"X">>, 10)
                \/ \E i \in 1..Len(streams) : SubscribeTrades(i, <<"X">>)
                \/ \E i \in 1..Len(streams) : SubscribeLastPrices(i, <<"X">>) )
            => (ret'.err = ErrNotConnected /\ ~ret'.rpc) ]_vars

\* C4: a receive error makes the receive loop reconnect, not terminate: a loop
\* that has ended belongs to a session that was closed.
C4_ReceiveErrorReconnects ==
    \A i \in 1..Len(streams) :
        streams[i].loop = "stopped" => (real.ctx = "cancelled" \/ ~real.connected)

\* The requests of a sequence of sent frames.
Requests(sent) == {sent[k] : k \in 1..Len(sent)}

Occurrences(sent, req) == Cardinality({k \in 1..Len(sent) : sent[k] = req})

\* C5: when a new channel is established after a channel failure, every topic
\* subscribed on the failed channel has exactly one subscribe frame, with the same
\* parameters, re-sent on the new channel.
C5_ResyncAfterReconnect ==
    [][ (Len(streams') = Len(streams) + 1)
        => \A j \in 1..Len(streams) : \A req \in Requests(streams[j].sent) :
              Occurrences(streams'[Len(streams')].sent, req) = 1 ]_vars

\* C6: on a channel established after a failure, the resync frames precede every
\* frame of a subscribe call issued after the reconnect: when such a call puts a
\* frame on the channel, the frames of the failed channel are already on it.
C6_ResyncBeforeNewSubscribe ==
    [][ \A i \in 2..Len(streams) :
          (Len(streams'[i].sent) > Len(streams[i].sent))
          => \A j \in 1..(i - 1) : Requests(streams[j].sent) \subseteq Requests(streams[i].sent) ]_vars

\* C7: subscribe is best-effort: a subscribe call does not fail, also when the send
\* of its control frame failed because the channel is down.
C7_SubscribeBestEffort == ret.op \in SubscribeOps => ret.err = ErrNil

\* A well-formed topic: no empty instrument id, an order-book depth within 1..50.
ValidRequest(req) ==
    \A k \in 1..Len(req.instruments) :
        /\ req.instruments[k].InstrumentId # ""
        /\ req.payload = "SubscribeOrderBookRequest" => req.instruments[k].param \in 1..50

\* C8: a subscribe call with a malformed topic is rejected and no control frame
\* for it is ever sent.
C8_InvalidTopicNeverSent ==
    \A i \in 1..Len(streams) : \A req \in Requests(streams[i].sent) : ValidRequest(req)

\* C9: every data update of a kind invokes the handler registered for that kind
\* exactly once.
C9_HandlerInvokedOncePerFrame ==
    \A k \in DataKinds : invoked[k] = simulated[k]

AckOf(req) ==
    CASE req.payload = "SubscribeCandlesRequest" -> "SubscribeCandlesResponse"
      [] req.payload = "SubscribeOrderBookRequest" -> "SubscribeOrderBookResponse"
      [] req.payload = "SubscribeTradesRequest" -> "SubscribeTradesResponse"
      [] req.payload = "SubscribeLastPriceRequest" -> "SubscribeLastPriceResponse"

\* The topic of req is Active on stream i: its frame was sent and an ack of its
\* kind was received afterwards.
Active(i, req) ==
    \E k \in 1..Len(streams[i].sent), n \in 1..Len(dispatched) :
        /\ streams[i].sent[k] = req
        /\ dispatched[n].stream = i
        /\ dispatched[n].payload = AckOf(req)
        /\ dispatched[n].nsent >= k

\* C10: subscribing again to a topic that is Active sends no additional control
\* frame: no frame put on a stream is for a topic already Active on it.
C10_ResubscribeSendsNothing ==
    [][ \A i \in 1..Len(streams) :
          (Len(streams'[i].sent) > Len(streams[i].sent))
          => ~Active(i, streams'[i].sent[Len(streams'[i].sent)]) ]_vars

\* The frame of a log entry was for an instrument the stream had a request for.
EntrySubscribed(e) == SubscribedTo(streams[e.stream].sent, e.nsent, e)

\* ... and, for candles, a request at the frame's interval.
EntrySubscribedAtInterval(e) == SubscribedAtInterval(streams[e.stream].sent, e.nsent, e)

\* C12: a data frame for a topic with no subscription on the stream
\* is dropped, no handling case runs for it.
C12_UnsubscribedFrameDropped ==
    \A n \in 1..Len(dispatched) :
        (dispatched[n].payload \in DataPayloads /\ ~EntrySubscribed(dispatched[n]))
        => dispatched[n].handledBy = "dropped"

\* C13: with a candle subscription for an instrument at one interval,
\* a candle frame for that instrument at another interval is not delivered.
C13_OtherIntervalNotDelivered ==
    \A n \in 1..Len(dispatched) :
        ( /\ dispatched[n].payload = "Candle"
          /\ EntrySubscribed(dispatched[n])
          /\ ~EntrySubscribedAtInterval(dispatched[n]) )
        => dispatched[n].handledBy # "CANDLE"

\* C14: a malformed frame, a frame of unknown payload kind or a frame without payload
\* never ends the receive loop: after it the loop is still receiving.
C14_BadFrameKeepsLoop ==
    [][ \A i \in 1..Len(streams), f \in DispatchFrames :
          ( /\ f.payload \in {"Nil", "Unknown", "Malformed"}
            /\ StreamAlive(real, streams[i])
            /\ Recv(i, f) )
          => streams'[i].loop = "running" ]_vars

\* C15: a panic raised while a frame is handled is caught: no receive loop ends by it.
C15_PanicCaught ==
    /\ ~panicked
    /\ \A i \in 1..Len(streams) : streams[i].loop # "crashed"

\* C16: the frames of a stream are handled in the order they are received.
C16_FramesInOrder ==
    \A m, n \in 1..Len(dispatched) :
        (m < n /\ dispatched[m].stream = dispatched[n].stream)
        => dispatched[m].seq < dispatched[n].seq

C16_Witness ==
    /\ Len(dispatched) >= 2
    /\ dispatched[1].stream = dispatched[2].stream
    /\ dispatched[1].payload # dispatched[2].payload
    /\ dispatched[1].seq = 1 /\ dispatched[2].seq = 2

\* C17: once Close has cancelled the client context, every running receive loop of
\* the client's streams eventually ends.
C17_LoopsEndAfterClose ==
    \A i \in 1..MaxStreams :
        (real.ctx = "cancelled" /\ i <= Len(streams) /\ streams[i].loop = "running")
        ~> (i <= Len(streams) /\ streams[i].loop # "running")

C17_Witness ==
    /\ real.ctx = "cancelled"
    /\ \E i, j \in 1..Len(streams) :
          /\ streams[i].svc = "marketdata" /\ streams[j].svc = "orders"
          /\ streams[i].status = "up" /\ streams[j].status = "up"
          /\ streams[i].loop = "stopped" /\ streams[j].loop = "stopped"

\* C18: a constructor called with isDemo builds a client on the sandbox server, one
\* called without it a client on the production server; an empty token gives the
\* configuration error and no client.
C18_DemoModeSafe ==
    [][ /\ \A t \in Tokens, d \in BOOLEAN, ok \in BOOLEAN :
              NewWithDemo(t, d, ok) =>
                 IF t = "" THEN ret'.err = ErrConfig /\ ~mock'.made
                 ELSE mock'.made =>
                        /\ mock'.isDemo = d
                        /\ mock'.serverURL = IF d THEN DemoServer ELSE ProductionServer
        /\ \A t \in Tokens, d \in BOOLEAN, ok \in BOOLEAN :
              NewRealWithDemo(t, d, ok) =>
                 IF t = "" THEN ret'.err = ErrConfig /\ ~real'.made
                 ELSE real'.made =>
                        /\ real'.isDemo = d
                        /\ real'.serverURL = IF d THEN DemoServer ELSE ProductionServer ]_vars

C18_Witness ==
    \/ mock.made /\ mock.isDemo /\ mock.serverURL = DemoServer /\ mock.connected
    \/ real.made /\ real.isDemo /\ real.serverURL = DemoServer /\ real.connected

\* C19: the backoff is bounded and increasing: the delay of an attempt is at most
\* MaxDelay and at least the delay of every earlier attempt.
C19_BackoffBoundedIncreasing ==
    ret.op = "CalculateBackoff" =>
        /\ DurationLe(ret.val.delay, ret.val.rc.MaxDelay)
        /\ \A a \in 0..ret.val.attempt :
              DurationLe(CalculateBackoff(ret.val.rc, a), ret.val.delay)

Sign(n) == IF n > 0 THEN 1 ELSE IF n < 0 THEN -1 ELSE 0

UnitsSign(u) ==
    IF u.kind = "MinInt64" THEN -1 ELSE IF u.kind = "MaxInt64" THEN 1 ELSE Sign(u.n)

\* C20: NewMoneyValue and NewQuotation put the value truncated toward zero in Units
\* and the fraction scaled by 10^9 in Nano; Units and Nano never have opposite signs,
\* |Nano| < 10^9, and NewMoneyValue keeps the currency.
C20_SplitsUnitsAndNano ==
    ret.op \in {"NewQuotation", "NewMoneyValue"} =>
        LET v == ret.val.value
            r == ret.val.result
        IN /\ v.class = "finite" => (r.Units = Int64(v.whole) /\ r.Nano = v.frac)
           /\ v.class = "huge" => UnitsSign(r.Units) = v.whole
           /\ UnitsSign(r.Units) * Sign(r.Nano) >= 0
           /\ -NanoPerUnit < r.Nano /\ r.Nano < NanoPerUnit
           /\ ret.op = "NewMoneyValue" => r.Currency = ret.val.currency

\* min(BaseDelay * 2^n, MaxDelay) over the integers, without a width.
ExactBackoff(rc, n) ==
    LET doubled == Duration(rc.BaseDelay.m, rc.BaseDelay.e + n)
    IN IF DurationGt(doubled, rc.MaxDelay) THEN rc.MaxDelay ELSE doubled

\* C29: for 0 < BaseDelay <= MaxDelay the delay of attempt n is
\* min(BaseDelay * 2^n, MaxDelay): the doubling never wraps around or turns negative.
C29_BackoffNeverWraps ==
    ret.op = "CalculateBackoff" =>
        LET rc == ret.val.rc
            positive == DurationGt(rc.BaseDelay, Duration(0, 0))
            ordered == DurationLe(rc.BaseDelay, rc.MaxDelay)
        IN (positive /\ ordered) =>
              ( /\ ret.val.delay = ExactBackoff(rc, ret.val.attempt)
                /\ DurationGt(ret.val.delay, Duration(0, 0)) )

\* nano - d * 10^9, one unit at a time.
RECURSIVE NanoLess(_, _)
NanoLess(nano, d) ==
    IF d = 0 THEN nano
    ELSE IF d > 0 THEN NanoLess(nano - NanoPerUnit, d - 1)
    ELSE NanoLess(nano + NanoPerUnit, d + 1)

\* units + nano / 10^9 = whole + frac / 10^9, for |frac| < 10^9
SameAmount(units, nano, whole, frac) ==
    LET d == whole - units
    IN /\ d > 0 => (nano \div NanoPerUnit) >= d - 1
       /\ d < 0 => (nano \div NanoPerUnit) <= d + 1
       /\ NanoLess(nano, d) = frac

\* C21: ToFloat is Units + Nano / 10^9, also for negative Units and Nano, and
\* ToFloat of NewQuotation(v) or NewMoneyValue(v, c) is v again.
C21_ToFloatRoundTrip ==
    /\ (ret.op = "ToFloat" /\ ret.val.value.Units.kind = "n") =>
          /\ ret.val.result.class = "finite"
          /\ SameAmount(ret.val.value.Units.n, ret.val.value.Nano,
                        ret.val.result.whole, ret.val.result.frac)
    /\ (ret.op \in {"NewQuotation.ToFloat", "NewMoneyValue.ToFloat"}
          /\ ret.val.value.class # "NaN") =>
          ret.val.result = ret.val.value

\* C22: on a connected mock Client GetAccounts returns the one mock account and no
\* error, and every later call returns the list the first call cached; on a client
\* whose connected flag Close has cleared it returns an error and no accounts.
C22_MockGetAccounts ==
    [][ ClientGetAccounts =>
          IF mock.connected
          THEN /\ ret'.err = ErrNil
               /\ ret'.val = "mock-account-1"
               /\ mock'.accounts = ret'.val
               /\ mock.accounts # "nil" => ret'.val = mock.accounts
          ELSE /\ ret'.err = ErrNotConnected
               /\ ret'.val = "nil"
               /\ mock' = mock ]_vars

C22_Witness ==
    /\ ret.op = "Client.GetAccounts" /\ ret.err = ErrNotConnected /\ ret.val = "nil"
    /\ mock.accounts = "mock-account-1" /\ ~mock.connected /\ mock.conn = "closed"

\* The call sent exactly one frame on stream i: of the given kind, with action
\* SUBSCRIBE and one entry per instrument id, in order, each with the parameter.
SentOneFrame(i, kind, instruments, param) ==
    LET before == streams[i].sent
        after == streams'[i].sent
        frame == after[Len(after)]
    IN /\ Len(after) = Len(before) + 1
       /\ SubSeq(after, 1, Len(before)) = before
       /\ frame.payload = kind
       /\ frame.action = "SUBSCRIPTION_ACTION_SUBSCRIBE"
       /\ Len(frame.instruments) = Len(instruments)
       /\ \A k \in 1..Len(instruments) :
              /\ frame.instruments[k].InstrumentId = instruments[k]
              /\ frame.instruments[k].param = param

\* The outcome of a Subscribe* call on stream i: nil and one frame sent when the
\* send succeeds, the call's error and no frame when it fails; no other stream changes.
SubscribeOutcome(i, kind, instruments, param) ==
    /\ Len(streams') = Len(streams)
    /\ \A j \in 1..Len(streams) : j # i => streams'[j] = streams[j]
    /\ IF StreamAlive(real, streams[i])
       THEN ret'.err = ErrNil /\ SentOneFrame(i, kind, instruments, param)
       ELSE ret'.err # ErrNil /\ streams'[i] = streams[i]

\* C23: each Subscribe* call performs one send on the given stream, of the
\* control-frame kind of the call, with action SUBSCRIBE, one entry per instrument
\* id in the given order and the interval or depth on every entry; it returns an
\* error exactly when that send fails.
C23_OneMatchingSend ==
    [][ \A i \in 1..Len(streams) :
          /\ \A ins \in InstrumentLists, iv \in CandleIntervals :
                SubscribeCandles(i, ins, iv, FALSE)
                   => (ret'.op = "SubscribeCandles"
                       /\ SubscribeOutcome(i, "SubscribeCandlesRequest", ins, iv))
          /\ \A d \in Depths :
                SubscribeOrderBook(i, <<"Y", "X">>, d)
                   => (ret'.op = "SubscribeOrderBook"
                       /\ SubscribeOutcome(i, "SubscribeOrderBookRequest", <<"Y", "X">>, d))
          /\ SubscribeTrades(i, <<"Y", "X">>)
                => (ret'.op = "SubscribeTrades"
                    /\ SubscribeOutcome(i, "SubscribeTradesRequest", <<"Y", "X">>, 0))
          /\ SubscribeLastPrices(i, <<"X", "Y">>)
                => (ret'.op = "SubscribeLastPrices"
                    /\ SubscribeOutcome(i, "SubscribeLastPriceRequest", <<"X", "Y">>, 0)) ]_vars

C23_Witness ==
    /\ ret.op = "SubscribeOrderBook" /\ ret.err = ErrNil
    /\ \E i \in 1..Len(streams) :
          /\ Len(streams[i].sent) = 2
          /\ streams[i].sent[1].payload = "SubscribeCandlesRequest"
          /\ streams[i].sent[2].payload = "SubscribeOrderBookRequest"
          /\ Len(streams[i].sent[2].instruments) = 2
          /\ streams[i].sent[2].instruments[1].InstrumentId = "Y"
          /\ streams[i].sent[2].instruments[2].InstrumentId = "X"
          /\ streams[i].sent[2].instruments[2].param = 20

\* The cases of the two type switches that process a data frame.
DataCases == {"CANDLE", "TRADE", "ORDER BOOK", "LAST PRICE", "TRADING STATUS", "ORDER"}

ControlPayloads ==
    {"Ping", "Subscription", "SubscribeCandlesResponse", "SubscribeOrderBookResponse",
     "SubscribeTradesResponse", "SubscribeLastPriceResponse"}

\* C24: the receive path puts every inbound frame into one case by its payload kind:
\* acks and pings are never handled by a data case, every data frame is handled by
\* a data case, and no data case handles frames of two kinds.
C24_FramesClassified ==
    \A n \in 1..Len(dispatched) :
        LET e == dispatched[n] IN
        /\ e.payload \in ControlPayloads => e.handledBy \notin DataCases
        /\ e.payload \in DataPayloads \cup {"OrderState"} => e.handledBy \in DataCases
        /\ \A m \in 1..Len(dispatched) :
              (e.handledBy \in DataCases /\ dispatched[m].handledBy = e.handledBy)
                 => dispatched[m].payload = e.payload
        /\ \A m \in 1..Len(dispatched) :
              (dispatched[m].payload = e.payload
               /\ streams[dispatched[m].stream].svc = streams[e.stream].svc)
                 => dispatched[m].handledBy = e.handledBy

C24_Witness ==
    /\ Len(dispatched) = 2
    /\ dispatched[1].payload = "Ping" /\ dispatched[1].handledBy = "ping"
    /\ dispatched[2].payload = "LastPrice" /\ dispatched[2].handledBy = "LAST PRICE"

\* C28: in every state of a constructed Client or RealClient, connected = true implies
\* that the connection is set and the client context is not cancelled; and once
\* connected is false on a constructed client it never becomes true again.
C28_ConnectedMeansLive ==
    [][ /\ (mock'.made /\ mock'.connected) => (mock'.conn # "nil" /\ mock'.ctx = "active")
        /\ (real'.made /\ real'.connected) => (real'.conn # "nil" /\ real'.ctx = "active")
        /\ (mock.made /\ ~mock.connected) => ~mock'.connected
        /\ (real.made /\ ~real.connected) => ~real'.connected ]_vars

\* C25: every write of a field of Client or RealClient that goroutines share is made
\* by a goroutine holding the exclusive lock, never the read lock only or no lock.
C25_WritesUnderExclusiveLock == \A w \in writes : w.held = "Lock"

\* Two goroutines are inside stream.Send on the same stream.
SendsOverlap ==
    \E g, h \in Goroutines :
        /\ g # h
        /\ goroutines[g].pc = "sending" /\ goroutines[h].pc = "sending"
        /\ goroutines[g].stream = goroutines[h].stream

\* A goroutine is inside stream.Send while Close tears the connection down.
SendOverlapsClose ==
    \E g, h \in Goroutines :
        /\ goroutines[g].pc = "sending"
        /\ goroutines[h].op = CloseOp /\ goroutines[h].pc = "closing"

\* C26: concurrent Subscribe* calls on one stream never have their sends overlap,
\* and no send overlaps with Close tearing the connection down.
C26_SendsSerialized == ~SendsOverlap /\ ~SendOverlapsClose

RealUnaryOps == {"RealClient.PostOrder", "RealClient.GetAccounts"}

\* C27: no unary RealClient call is in flight when Close closes the connection: while
\* a call that passed its connected check has not returned, no Close is past its
\* Lock() and the connection is open; a call that started after Close took the lock,
\* when the connection close succeeded, issues no RPC and fails with "not connected".
C27_NoCallInFlightAtClose ==
    \A g \in Goroutines :
        goroutines[g].op \in RealUnaryOps =>
            /\ goroutines[g].pc = "rpc" =>
                  /\ real.conn = "open" /\ real.connected
                  /\ \A h \in Goroutines :
                        goroutines[h].op = CloseOp => goroutines[h].pc \in {"called"}
            /\ (goroutines[g].afterClose /\ real.conn = "closed"
                    /\ goroutines[g].pc \in {"rpc", "returning"})
                  => (~goroutines[g].rpc /\ goroutines[g].err = ErrNotConnected)

C27_Witness ==
    \E g, h \in Goroutines :
        /\ goroutines[g].op = "RealClient.PostOrder" /\ goroutines[g].pc = "rpc"
        /\ goroutines[h].op = CloseOp /\ goroutines[h].pc = "called"
        /\ ret.op = "RealClient.GetAccounts" /\ ret.err = ErrNil

====
